---- MODULE Spec2Model ----
(***************************************************************************)
(* Model of the coin-collecting game of src/coin-collecting.py: the Game   *)
(* object, its entities, the event handler and the per-frame update with   *)
(* its collision pass.                                                     *)
(*                                                                         *)
(* Numbers.  Horizontal positions are pixels, as in the source, where they *)
(* are always integers.  Vertical positions and speeds of the falling      *)
(* entities and every field of a particle are Python floats that are       *)
(* multiples of 0.1; they are kept in fixed point, in tenths (Unit = 10    *)
(* tenths per pixel), so that 5 + 0.3 is 50 + 3.                           *)
(*                                                                         *)
(* Clock.  now is the reading of pygame.time.get_ticks() in the current    *)
(* frame, measured from the last construction of the Player: the source    *)
(* only ever compares a reading with a time stamp that was stored after    *)
(* that construction.                                                      *)
(*                                                                         *)
(* The module also models two programs that share nothing with the game:   *)
(* FinancialDataFetcher._make_request of src/FinancialDataFetcher.py (the  *)
(* same code is in src/FinancialDataFetcherTeleBot.py) in the variable     *)
(* fetch, and the ToDoList object of src/ToDoList.py in the variable todo. *)
(***************************************************************************)
EXTENDS Integers, Sequences, FiniteSets, TLC

VARIABLES
    state,        \* Game.state
    player,       \* Game.player
    obstacles,    \* Game.obstacles
    coins,        \* Game.coins
    power_ups,    \* Game.power_ups
    particles,    \* Game.particles
    score,        \* Game.score
    high_score,   \* Game.high_score
    level,        \* Game.level
    lives,        \* Game.lives
    dark_mode,    \* Game.dark_mode
    file,         \* highscore.txt
    running,      \* the flag of Game.run
    now,          \* pygame.time.get_ticks()
    loop,         \* position inside Game.check_collisions
    idle_frames,  \* frames updated outside PLAYING since the last reset
    writes,       \* number of times highscore.txt was written
    pass,         \* record of the obstacle loop of the current frame
    ignored,      \* the last KEYDOWN event of this frame matched no branch
    fetch,        \* the run of FinancialDataFetcher._make_request
    todo          \* the ToDoList object and its two data files

vars == <<state, player, obstacles, coins, power_ups, particles, score,
          high_score, level, lives, dark_mode, file, running, now, loop,
          idle_frames, writes, pass, ignored, fetch, todo>>

\* the variables of the game
game == <<state, player, obstacles, coins, power_ups, particles, score,
          high_score, level, lives, dark_mode, file, running, now, loop,
          idle_frames, writes, pass, ignored>>

-----------------------------------------------------------------------------
(* Program constants *)

SCREEN_WIDTH == 800
SCREEN_HEIGHT == 800

MENU == 0
PLAYING == 1
GAME_OVER == 2
SETTINGS == 3

Unit == 10

PlayerWidth == 50
PlayerHeight == 50
PlayerSpeed == 10
PlayerBottomGap == 10
EffectDuration == 5000

ObstacleHeight == 20
ObstacleSpeed == 5
ObstacleSpeedStep == 3

CoinRadius == 15
CoinSpeed == 4
CoinSpeedStep == 2
RareCoinValue == 5

PowerUpSize == 30
PowerUpSpeed == 3
MaxPowerUps == 2

CoinParticles == 20
HitParticles == 30

BaseObstacles == 3
BaseCoins == 2
MaxEntities == 5

\* CONFIG['max_retries'] and CONFIG['retry_delay'] (seconds)
max_retries == 3
retry_delay == 2

-----------------------------------------------------------------------------
(* Bounds of the model *)

\* Duration of one frame in milliseconds (Clock.tick(60) allows no less than 16).
Tick == 20
\* Frames are updated only while now < MaxTime (MaxShieldTime under SpecShield).
MaxTime == 7400
MaxShieldTime == 6200
\* random.random() < 0.05 may hold only in the frames whose clock reading is
\* between these two.
SpawnFirst == 1140
SpawnLast == 1160
\* At most this many consecutive frames are updated outside PLAYING.
MaxIdleFrames == 2
\* SpecLevels: the clock reading at which it stops, and the frames in which
\* random.random() < 0.05 may hold.
MaxLevelTime == 29000
LevelSpawnFirst == 2400
LevelSpawnLast == 2440
\* SpecFast: the clock reading at which it stops, the frame in which
\* random.random() < 0.05 may hold, and the frames in which an obstacle may
\* be drawn over the player.
MaxFastTime == 301400
FastSpawn == 20
NearFirst == 301280
NearLast == 301300
\* SpecPersist: the longest text highscore.txt starts with, the largest high
\* score saved and the number of saves.
MaxTextLen == 2
MaxSaved == 120
MaxSaves == 2
\* SpecStore: the clock reading at which it stops.
MaxStoreTime == 6200
\* SpecEffect: the same two.
MaxEffectTime == 10100
EffectSpawnFirst == 20
EffectSpawnLast == 40
\* SpecWidths: the clock stops a few frames after the first respawn
MaxWidthTime == 3400
\* SpecMove: the clock stops after the frames it takes to cross half the screen
MaxMoveTime == 800
\* SpecTunnel: the clock readings between which an obstacle may be drawn over
\* the player (the respawns that give the speeds 73.4 and 73.7), and the
\* reading at which the clock stops, a fall later
TunnelFirst == 150760
TunnelLast == 151000
MaxTunnelTime == 151300
\* SpecFetch: the number of calls of _make_request
MaxCalls == 2
\* SpecToDo: the number of tasks the list holds at most
MaxTasks == 3

-----------------------------------------------------------------------------
(* Helpers *)

Min(a, b) == IF a < b THEN a ELSE b
Max(a, b) == IF a > b THEN a ELSE b

-----------------------------------------------------------------------------
(* The high-score file: whether highscore.txt exists, and its content, a   *)
(* sequence of one-character strings.                                      *)

NoFile == [exists |-> FALSE, content |-> <<>>]
FileWith(cs) == [exists |-> TRUE, content |-> cs]

DigitChars == <<"0", "1", "2", "3", "4", "5", "6", "7", "8", "9">>

\* DigitsOf giving the last digit only
DigitsOfLastDigit(n) == <<DigitChars[(n % 10) + 1]>>

RECURSIVE DigitsOf(_)
\* str(n) for n >= 0
DigitsOf(n) ==
    IF n < 10 THEN <<DigitChars[n + 1]>>
    ELSE Append(DigitsOf(n \div 10), DigitChars[(n % 10) + 1])

IsDigit(c) == \E d \in 1..10 : DigitChars[d] = c
DigitValue(c) == (CHOOSE d \in 1..10 : DigitChars[d] = c) - 1

RECURSIVE ValueOf(_)
\* the number a non-empty sequence of digits denotes
ValueOf(cs) ==
    IF Len(cs) = 1 THEN DigitValue(cs[1])
    ELSE 10 * ValueOf(SubSeq(cs, 1, Len(cs) - 1)) + DigitValue(cs[Len(cs)])

RECURSIVE StripLeft(_)
\* the text without its leading white space
StripLeft(cs) ==
    IF Len(cs) > 0 /\ cs[1] = " " THEN StripLeft(Tail(cs)) ELSE cs

RECURSIVE StripRight(_)
\* the text without its trailing white space
StripRight(cs) ==
    IF Len(cs) > 0 /\ cs[Len(cs)] = " "
    THEN StripRight(SubSeq(cs, 1, Len(cs) - 1)) ELSE cs

\* int(text) succeeds: white space, an optional sign, one or more digits,
\* white space (texts over digits, signs, blanks and letters)
IsIntText(cs) ==
    LET s == StripRight(StripLeft(cs))
        d == IF Len(s) > 0 /\ s[1] \in {"+", "-"} THEN Tail(s) ELSE s
    IN Len(d) > 0 /\ \A i \in 1..Len(d) : IsDigit(d[i])

\* int(text) where it succeeds
IntOf(cs) ==
    LET s == StripRight(StripLeft(cs))
    IN IF s[1] = "-" THEN -ValueOf(Tail(s))
       ELSE IF s[1] = "+" THEN ValueOf(Tail(s))
       ELSE ValueOf(s)

\* Game.load_high_score: int(f.read()), 0 on FileNotFoundError or ValueError
load_high_score(f) ==
    IF ~f.exists THEN 0
    ELSE IF IsIntText(f.content) THEN IntOf(f.content)
    ELSE 0

\* Game.save_high_score: the file after f.write(str(self.high_score))
save_high_score(hs) == FileWith(DigitsOf(hs))

-----------------------------------------------------------------------------
(* Entities *)

\* Player.__init__ with Player.reset_position
NewPlayer ==
    [x |-> SCREEN_WIDTH \div 2 - PlayerWidth \div 2,
     y |-> SCREEN_HEIGHT - PlayerHeight - PlayerBottomGap,
     shield |-> FALSE, shield_time |-> 0,
     speed_boost |-> FALSE, speed_boost_time |-> 0]

\* what random.randint(100, 200) and random.randint(0, SCREEN_WIDTH - width) may give
ValidObstacleDraw(d) ==
    /\ d.width \in 100..200
    /\ d.x \in 0..(SCREEN_WIDTH - d.width)

\* Obstacle.__init__ with the drawn width and position
NewObstacle(d) ==
    [x |-> d.x, y |-> -ObstacleHeight * Unit, width |-> d.width,
     speed |-> ObstacleSpeed * Unit]

\* ObstacleRespawn with the speed step subtracted
ObstacleRespawnSlower(o, d) ==
    [x |-> d.x, y |-> -ObstacleHeight * Unit, width |-> d.width,
     speed |-> o.speed - ObstacleSpeedStep]

\* ObstacleRespawn drawing a new width and keeping the old position
ObstacleRespawnKeepsX(o, d) ==
    [x |-> o.x, y |-> -ObstacleHeight * Unit, width |-> d.width,
     speed |-> o.speed + ObstacleSpeedStep]

\* Obstacle.respawn
ObstacleRespawn(o, d) ==
    [x |-> d.x, y |-> -ObstacleHeight * Unit, width |-> d.width,
     speed |-> o.speed + ObstacleSpeedStep]

\* Obstacle.update
ObstacleUpdate(o) == [o EXCEPT !.y = o.y + o.speed]

\* Obstacle.is_off_screen, Coin.is_off_screen, PowerUp.is_off_screen
is_off_screen(e) == e.y > SCREEN_HEIGHT * Unit

\* what random.randint(radius, SCREEN_WIDTH - radius) and random.random() < 0.1 may give
ValidCoinDraw(d) ==
    /\ d.x \in CoinRadius..(SCREEN_WIDTH - CoinRadius)
    /\ d.rare \in BOOLEAN

\* Coin.__init__ with the drawn position
NewCoin(x) ==
    [x |-> x, y |-> -CoinRadius * Unit, speed |-> CoinSpeed * Unit,
     color |-> "GOLD", collected |-> FALSE, animation_frame |-> 0, value |-> 1]

\* CoinRespawn without the reset of the collected flag
CoinRespawnStaysCollected(c, d) ==
    [c EXCEPT !.x = d.x, !.y = -CoinRadius * Unit,
              !.speed = c.speed + CoinSpeedStep,
              !.color = IF d.rare THEN "PURPLE" ELSE "GOLD",
              !.value = IF d.rare THEN RareCoinValue ELSE 1]

\* Coin.respawn
CoinRespawn(c, d) ==
    [c EXCEPT !.x = d.x, !.y = -CoinRadius * Unit,
              !.speed = c.speed + CoinSpeedStep,
              !.collected = FALSE,
              !.color = IF d.rare THEN "PURPLE" ELSE "GOLD",
              !.value = IF d.rare THEN RareCoinValue ELSE 1]

\* Coin.update
CoinUpdate(c) ==
    [c EXCEPT !.y = c.y + c.speed, !.animation_frame = c.animation_frame + 1]

PowerUpTypes == {"shield", "speed_boost", "extra_life"}

ValidPowerUpDraw(d) ==
    /\ d.x \in 0..(SCREEN_WIDTH - PowerUpSize)
    /\ d.type \in PowerUpTypes

\* PowerUp.__init__ with the drawn position and type
NewPowerUp(d) ==
    [x |-> d.x, y |-> -PowerUpSize * Unit, type |-> d.type, collected |-> FALSE]

\* PowerUp.update
PowerUpUpdate(u) == [u EXCEPT !.y = u.y + PowerUpSpeed * Unit]

\* what the four draws of Particle.__init__ may give, in tenths
ValidParticleDraw(d) ==
    /\ d.size \in {2 * Unit, 3 * Unit, 4 * Unit, 5 * Unit}
    /\ d.speed_x \in (-2 * Unit)..(2 * Unit)
    /\ d.speed_y \in (-5 * Unit)..(-1 * Unit)
    /\ d.lifetime \in 20..40

\* Particle.__init__ at (x, y), both in tenths
NewParticle(x, y, color, d) ==
    [x |-> x, y |-> y, color |-> color, size |-> d.size,
     speed_x |-> d.speed_x, speed_y |-> d.speed_y, lifetime |-> d.lifetime]

\* Particle.update
ParticleUpdate(p) ==
    [p EXCEPT !.x = p.x + p.speed_x, !.y = p.y + p.speed_y,
              !.lifetime = p.lifetime - 1,
              !.size = Max(0, p.size - 1)]

\* is_dead keeping a particle for the frame in which its lifetime is zero
is_dead_late(p) == p.lifetime < 0

\* Particle.is_dead
is_dead(p) == p.lifetime <= 0

\* n particles created at (x, y) from one drawn parameter set
Burst(n, x, y, color, d) == [i \in 1..n |-> NewParticle(x, y, color, d)]

-----------------------------------------------------------------------------
(* Game: pure parts *)

\* ObstacleCount without the upper limit
ObstacleCountUncapped(lv) == BaseObstacles + lv \div 2

\* Game.reset_game_objects: the lengths of the two lists at level lv
ObstacleCount(lv) == Min(BaseObstacles + lv \div 2, MaxEntities)
CoinCount(lv) == Min(BaseCoins + lv \div 3, MaxEntities)

\* PlayerUpdate with the effects ending as soon as 5000 ms have passed
PlayerUpdateExpiresAt(p, keys, t) ==
    LET step == IF p.speed_boost THEN (PlayerSpeed * 3) \div 2 ELSE PlayerSpeed
        x1 == IF keys.left /\ p.x > 0 THEN p.x - step ELSE p.x
        x2 == IF keys.right /\ x1 < SCREEN_WIDTH - PlayerWidth THEN x1 + step ELSE x1
    IN [p EXCEPT
          !.x = x2,
          !.shield = p.shield /\ ~(t - p.shield_time >= EffectDuration),
          !.speed_boost = p.speed_boost /\ ~(t - p.speed_boost_time >= EffectDuration)]

\* Player.update: the player after one frame with the keys held and the clock at t
PlayerUpdate(p, keys, t) ==
    LET step == IF p.speed_boost THEN (PlayerSpeed * 3) \div 2 ELSE PlayerSpeed
        x1 == IF keys.left /\ p.x > 0 THEN p.x - step ELSE p.x
        x2 == IF keys.right /\ x1 < SCREEN_WIDTH - PlayerWidth THEN x1 + step ELSE x1
    IN [p EXCEPT
          !.x = x2,
          !.shield = p.shield /\ ~(t - p.shield_time > EffectDuration),
          !.speed_boost = p.speed_boost /\ ~(t - p.speed_boost_time > EffectDuration)]

\* the overlap tests of Game.check_collisions
CoinOverlap(p, c) ==
    /\ p.x < c.x + CoinRadius
    /\ p.x + PlayerWidth > c.x - CoinRadius
    /\ p.y * Unit < c.y + CoinRadius * Unit
    /\ (p.y + PlayerHeight) * Unit > c.y - CoinRadius * Unit
    /\ ~c.collected

PowerUpOverlap(p, u) ==
    /\ p.x < u.x + PowerUpSize
    /\ p.x + PlayerWidth > u.x
    /\ p.y * Unit < u.y + PowerUpSize * Unit
    /\ (p.y + PlayerHeight) * Unit > u.y
    /\ ~u.collected

ObstacleOverlap(p, o) ==
    /\ p.x < o.x + o.width
    /\ p.x + PlayerWidth > o.x
    /\ p.y * Unit < o.y + ObstacleHeight * Unit
    /\ (p.y + PlayerHeight) * Unit > o.y

\* the centre of the player, in tenths
PlayerCentreX(p) == (p.x + PlayerWidth \div 2) * Unit
PlayerCentreY(p) == (p.y + PlayerHeight \div 2) * Unit

\* list.remove(e): the list without the first element equal to e
RemoveFirst(lst, e) ==
    LET k == CHOOSE j \in 1..Len(lst) :
                 lst[j] = e /\ \A h \in 1..(j - 1) : lst[h] # e
    IN SubSeq(lst, 1, k - 1) \o SubSeq(lst, k + 1, Len(lst))

\* the first index from k on whose element the player overlaps, 0 if none
FirstHit(k, hits) ==
    IF \E j \in hits : j >= k
    THEN CHOOSE j \in hits : j >= k /\ \A h \in hits : h >= k => j <= h
    ELSE 0

CoinHits(p, lst) == {j \in 1..Len(lst) : CoinOverlap(p, lst[j])}
PowerUpHits(p, lst) == {j \in 1..Len(lst) : PowerUpOverlap(p, lst[j])}
ObstacleHits(p, lst) == {j \in 1..Len(lst) : ObstacleOverlap(p, lst[j])}

\* the loop position between two frames, and after the last frame
Between(run) ==
    [phase |-> IF run THEN "idle" ELSE "exited", i |-> 0, iter |-> <<>>,
     detached |-> FALSE]

\* NextLoop with the obstacle loop before the power-up loop
NextLoopObstaclesFirst(phase, k, lst, det, p, pus, obs, run) ==
    LET ch == IF phase = "coins" THEN FirstHit(k, CoinHits(p, lst)) ELSE 0
        copy == IF phase = "powerups" THEN lst ELSE pus
        oh == IF phase = "coins" THEN FirstHit(1, ObstacleHits(p, obs))
              ELSE IF phase = "obstacles" THEN FirstHit(k, ObstacleHits(p, obs))
              ELSE 0
        uh == FirstHit(IF phase = "powerups" THEN k ELSE 1, PowerUpHits(p, copy))
    IN IF ch > 0
       THEN [phase |-> "coins", i |-> ch, iter |-> IF det THEN lst ELSE <<>>,
             detached |-> det]
       ELSE IF oh > 0
       THEN [phase |-> "obstacles", i |-> oh, iter |-> <<>>, detached |-> FALSE]
       ELSE IF uh > 0
       THEN [phase |-> "powerups", i |-> uh, iter |-> copy, detached |-> FALSE]
       ELSE Between(run)

(* Game.check_collisions from a position on: the three loops run the       *)
(* handlers of the overlapping entities in order; the position stops at    *)
(* the next entity whose handler runs.  phase, k and lst say where the     *)
(* scan resumes: lst is the list the coin loop iterates (phase "coins") or *)
(* the copy the power-up loop iterates (phase "powerups"); det says that   *)
(* the coin list iterated is no longer Game.coins.                         *)
NextLoop(phase, k, lst, det, p, pus, obs, run) ==
    LET ch == IF phase = "coins" THEN FirstHit(k, CoinHits(p, lst)) ELSE 0
        copy == IF phase = "coins" THEN pus ELSE lst
        uh == IF phase = "coins" THEN FirstHit(1, PowerUpHits(p, copy))
              ELSE IF phase = "powerups" THEN FirstHit(k, PowerUpHits(p, copy))
              ELSE 0
        oh == FirstHit(IF phase = "obstacles" THEN k ELSE 1, ObstacleHits(p, obs))
    IN IF ch > 0
       THEN [phase |-> "coins", i |-> ch, iter |-> IF det THEN lst ELSE <<>>,
             detached |-> det]
       ELSE IF uh > 0
       THEN [phase |-> "powerups", i |-> uh, iter |-> copy, detached |-> FALSE]
       ELSE IF oh > 0
       THEN [phase |-> "obstacles", i |-> oh, iter |-> <<>>, detached |-> FALSE]
       ELSE Between(run)

-----------------------------------------------------------------------------
(* FinancialDataFetcher._make_request: pure parts.  What session.get does  *)
(* in one attempt is a record: a response with its status and text, or the *)
(* exception it raises.                                                    *)

Response(status, text) ==
    [kind |-> "response", status |-> status, text |-> text, exc |-> "none"]

Raises(exc) == [kind |-> "exception", status |-> 0, text |-> "", exc |-> exc]

\* the subclasses of requests.exceptions.RequestException that occur
RequestExceptions == {"Timeout", "ConnectionError", "HTTPError"}

\* response.raise_for_status(): an HTTPError for the 4xx and 5xx statuses
raise_for_status(r) == IF r.status >= 400 THEN "HTTPError" ELSE "none"

\* the exception that the body of the try statement raises, or "none"
Raised(o) == IF o.kind = "exception" THEN o.exc ELSE raise_for_status(o)

\* BeautifulSoup(response.text, 'html.parser')
BeautifulSoup(text) == [kind |-> "page", parser |-> "html.parser", markup |-> text]

\* what _make_request returns when every attempt has failed
None == [kind |-> "None", parser |-> "", markup |-> ""]

\* no value yet: the call has not returned
Pending == [kind |-> "pending", parser |-> "", markup |-> ""]

\* the exception left the call
Propagated(exc) == [kind |-> "raised", parser |-> "", markup |-> exc]

\* MaySleep, sleeping after the last attempt as well
MaySleepAfterLast(attempt) == attempt < max_retries

\* the test before time.sleep
MaySleep(attempt) == attempt < max_retries - 1

\* the for loop over range(max_retries), after the attempt numbered attempt
\* has failed: the next attempt, or the return of None
AfterFailure(f, attempt) ==
    IF attempt + 1 < max_retries
    THEN [f EXCEPT !.pc = "get", !.attempt = attempt + 1]
    ELSE [f EXCEPT !.pc = "returned", !.result = None]

\* no call of _make_request has been made
NoCall ==
    [pc |-> "idle", url |-> "", attempt |-> 0, tried |-> <<>>, sleeps |-> 0,
     slept |-> 0, result |-> Pending, calls |-> 0]

-----------------------------------------------------------------------------
(* ToDoList: pure parts.  A datetime is a positive integer, None in its    *)
(* place is 0; a task without category has the category NoCategory.        *)

NoDate == 0

NoCategory == [name |-> "", color |-> ""]

\* Task.__init__ with the defaults of its parameters, created at t
NewTask(name, t) ==
    [name |-> name, description |-> "", priority |-> "MEDIUM",
     due_date |-> NoDate, category |-> NoCategory, completed |-> FALSE,
     created_at |-> t, completed_at |-> NoDate]

\* Task.complete at t
complete(task, t) == [task EXCEPT !.completed = TRUE, !.completed_at = t]

\* hasattr(task, key), for the keys that are not names of methods
hasattr(task, key) == key \in DOMAIN task

\* setattr(task, key, value)
setattr(task, key, value) == [task EXCEPT ![key] = value]

\* the loop of edit_task over kwargs.items()
RECURSIVE ApplyKwargs(_, _)
ApplyKwargs(task, kwargs) ==
    IF kwargs = <<>> THEN task
    ELSE LET kv == Head(kwargs)
         IN ApplyKwargs(IF hasattr(task, kv.key)
                        THEN setattr(task, kv.key, kv.value) ELSE task,
                        Tail(kwargs))

\* the test of remove_task, complete_task and edit_task; index counts from 0
ValidIndex(index, tasks) == 0 <= index /\ index < Len(tasks)

\* list.pop removing the last element whatever the index
PopLast(lst, index) == SubSeq(lst, 1, Len(lst) - 1)

\* the list after list.pop(index)
Pop(lst, index) == SubSeq(lst, 1, index) \o SubSeq(lst, index + 2, Len(lst))

\* the element with the index, counted from 0
At(lst, index) == lst[index + 1]

\* a data file: missing, empty, or holding a pickled list
NoPickle == [state |-> "missing", content |-> <<>>]

EmptyPickle == [state |-> "empty", content |-> <<>>]

\* pickle.dump(lst, f) on a file opened with 'wb'
PickleOf(lst) == [state |-> "pickled", content |-> lst]

\* load_data for one file: FileNotFoundError and EOFError give the empty list
load_data(f) == IF f.state = "pickled" THEN f.content ELSE <<>>

\* the values the three operations return
ReturnedNone == [kind |-> "None", task |-> NewTask("", NoDate)]

ReturnedBool(b) == [kind |-> IF b THEN "True" ELSE "False", task |-> NewTask("", NoDate)]

ReturnedTask(task) == [kind |-> "task", task |-> task]

\* ToDoList.__init__ over the two data files
NewToDoList(tasks_pkl, categories_pkl) ==
    [tasks |-> load_data(tasks_pkl), categories |-> load_data(categories_pkl),
     tasks_pkl |-> tasks_pkl, categories_pkl |-> categories_pkl,
     written |-> {}, result |-> ReturnedNone, op |-> "init", index |-> 0]

\* ToDoList.save_data
save_data(td) ==
    [td EXCEPT !.tasks_pkl = PickleOf(td.tasks),
               !.categories_pkl = PickleOf(td.categories),
               !.written = {"tasks.pkl", "categories.pkl"}]

\* no ToDoList has been constructed
NoToDoList == [NewToDoList(NoPickle, NoPickle) EXCEPT !.op = "none"]

\* the object at the start of the operation op called with index: no file
\* has been written by it yet
Started(td, op, index) == [td EXCEPT !.written = {}, !.op = op, !.index = index]

\* ToDoList.add_task
add_task(td, task) ==
    [save_data([td EXCEPT !.tasks = Append(td.tasks, task)])
        EXCEPT !.result = ReturnedNone]

\* ToDoList.remove_task
remove_task(td, index) ==
    IF ValidIndex(index, td.tasks)
    THEN [save_data([td EXCEPT !.tasks = Pop(td.tasks, index)])
             EXCEPT !.result = ReturnedTask(At(td.tasks, index))]
    ELSE [td EXCEPT !.result = ReturnedNone]

\* ToDoList.complete_task, datetime.now() being t
complete_task(td, index, t) ==
    IF ValidIndex(index, td.tasks)
    THEN [save_data([td EXCEPT !.tasks[index + 1] = complete(At(td.tasks, index), t)])
             EXCEPT !.result = ReturnedBool(TRUE)]
    ELSE [td EXCEPT !.result = ReturnedBool(FALSE)]

\* ToDoList.edit_task
edit_task(td, index, kwargs) ==
    IF ValidIndex(index, td.tasks)
    THEN [save_data([td EXCEPT !.tasks[index + 1] =
                                   ApplyKwargs(At(td.tasks, index), kwargs)])
             EXCEPT !.result = ReturnedBool(TRUE)]
    ELSE [td EXCEPT !.result = ReturnedBool(FALSE)]

-----------------------------------------------------------------------------
(* Game: state and operations.  env is the environment of a specification: *)
(* the sets its inputs are drawn from (keys held, events, random draws,    *)
(* initial files) and the clock reading at which it stops.                 *)

\* reset_game_objects emptying the two lists only at level 1
reset_game_objects_start(env, lv) ==
    /\ \E od \in [1..ObstacleCount(lv) -> env.obstacle] :
           obstacles' = [i \in 1..ObstacleCount(lv) |-> NewObstacle(od[i])]
    /\ \E cx \in [1..CoinCount(lv) -> {d.x : d \in env.coin}] :
           coins' = [i \in 1..CoinCount(lv) |-> NewCoin(cx[i])]
    /\ IF lv = 1 THEN power_ups' = <<>> /\ particles' = <<>>
       ELSE UNCHANGED <<power_ups, particles>>

\* reset_game_objects without the two lists it empties
reset_game_objects_keep(env, lv) ==
    /\ \E od \in [1..ObstacleCount(lv) -> env.obstacle] :
           obstacles' = [i \in 1..ObstacleCount(lv) |-> NewObstacle(od[i])]
    /\ \E cx \in [1..CoinCount(lv) -> {d.x : d \in env.coin}] :
           coins' = [i \in 1..CoinCount(lv) |-> NewCoin(cx[i])]
    /\ UNCHANGED <<power_ups, particles>>

\* Game.reset_game_objects at level lv
reset_game_objects(env, lv) ==
    /\ \E od \in [1..ObstacleCount(lv) -> env.obstacle] :
           obstacles' = [i \in 1..ObstacleCount(lv) |-> NewObstacle(od[i])]
    /\ \E cx \in [1..CoinCount(lv) -> {d.x : d \in env.coin}] :
           coins' = [i \in 1..CoinCount(lv) |-> NewCoin(cx[i])]
    /\ power_ups' = <<>>
    /\ particles' = <<>>

\* the record of the obstacle loop of a frame: the shield flag and the lives
\* when the loop started, the number of handlers it has run, the slots of
\* the obstacles they have run for, and the kinds of the power-ups collected
\* in the frame before the loop started
PassAt(p, lv) ==
    [shield |-> p.shield, lives |-> lv, hits |-> 0, slots |-> {}, kinds |-> {}]

\* what a call of save_high_score may do: write the file, raise OSError in
\* open() and leave the file as it was, or raise it in write() after open()
\* has truncated the file
WriteOutcomes == {"ok", "open_fails", "write_fails"}

\* every draw of the environment is one the random calls of the source can give
EnvDrawsValid(env) ==
    /\ \A d \in env.obstacle \cup env.near.draws : ValidObstacleDraw(d)
    /\ \A d \in env.coin : ValidCoinDraw(d)
    /\ \A d \in env.power_up : ValidPowerUpDraw(d)
    /\ \A d \in env.particle : ValidParticleDraw(d)
    /\ env.write \subseteq WriteOutcomes

\* the widths and positions an obstacle may draw in the frame with the clock
\* at t: those of env.obstacle, and in the frames of env.near.at those of
\* env.near.draws as well
ObstacleDrawsAt(env, t) ==
    env.obstacle \cup (IF t \in env.near.at THEN env.near.draws ELSE {})

\* Game.__init__
Init(env) ==
    /\ EnvDrawsValid(env)
    /\ state = MENU
    /\ player = NewPlayer
    /\ \E od \in [1..ObstacleCount(1) -> env.obstacle] :
           obstacles = [i \in 1..ObstacleCount(1) |-> NewObstacle(od[i])]
    /\ \E cx \in [1..CoinCount(1) -> {d.x : d \in env.coin}] :
           coins = [i \in 1..CoinCount(1) |-> NewCoin(cx[i])]
    /\ power_ups = <<>>
    /\ particles = <<>>
    /\ score = 0
    /\ file \in env.file
    /\ high_score = load_high_score(file)
    /\ level = 1
    /\ lives = 1
    /\ dark_mode = TRUE
    /\ running = TRUE
    /\ now = 0
    /\ loop = Between(TRUE)
    /\ idle_frames = 0
    /\ writes = 0
    /\ pass = PassAt(NewPlayer, 1)
    /\ ignored = FALSE
    /\ fetch = NoCall
    /\ todo = NoToDoList

\* IsRecord, taking every score for a record
IsRecordAlways(sc, hs) == TRUE

\* IsRecord, taking a tie for a record
IsRecordOrTie(sc, hs) == sc >= hs

\* Game.game_over: the test for a new record
IsRecord(sc, hs) == sc > hs

\* Game.game_over, the call of save_high_score having the outcome w
game_over(w) ==
    /\ state' = GAME_OVER
    /\ IF IsRecord(score, high_score)
       THEN /\ high_score' = score
            /\ file' = IF w = "ok" THEN save_high_score(score)
                       ELSE IF w = "open_fails" THEN file
                       ELSE FileWith(<<>>)
            /\ writes' = IF w = "ok" THEN writes + 1 ELSE writes
       ELSE UNCHANGED <<high_score, file, writes>>

\* the position after an exception has left Game.update and Game.run
Crashed == [phase |-> "crashed", i |-> 0, iter |-> <<>>, detached |-> FALSE]

\* KeyState with ESC leaving the game for the menu
KeyStateEscape(st, key) ==
    IF st = MENU /\ key = "K_1" THEN PLAYING
    ELSE IF st = MENU /\ key = "K_2" THEN SETTINGS
    ELSE IF st = GAME_OVER /\ key = "K_RETURN" THEN MENU
    ELSE IF st \in {SETTINGS, PLAYING} /\ key = "K_ESCAPE" THEN MENU
    ELSE st

\* KeyState with RETURN leading to the menu from every other mode
KeyStateReturnAnywhere(st, key) ==
    IF st = MENU /\ key = "K_1" THEN PLAYING
    ELSE IF st = MENU /\ key = "K_2" THEN SETTINGS
    ELSE IF st # MENU /\ key = "K_RETURN" THEN MENU
    ELSE IF st = SETTINGS /\ key = "K_ESCAPE" THEN MENU
    ELSE st

\* Game.handle_events: the state after a KEYDOWN event
KeyState(st, key) ==
    IF st = MENU /\ key = "K_1" THEN PLAYING
    ELSE IF st = MENU /\ key = "K_2" THEN SETTINGS
    ELSE IF st = GAME_OVER /\ key = "K_RETURN" THEN MENU
    ELSE IF st = SETTINGS /\ key = "K_ESCAPE" THEN MENU
    ELSE st

\* Game.handle_events: the state st has a branch for the key
Handled(st, key) ==
    \/ st = MENU /\ key \in {"K_1", "K_2", "K_3"}
    \/ st = GAME_OVER /\ key = "K_RETURN"
    \/ st = SETTINGS /\ key \in {"K_1", "K_ESCAPE"}

\* Game.handle_events, one KEYDOWN event.  K_3 in the menu ends Game.run: the
\* update that still follows it runs in MENU and does nothing.
KeyDown(env, key) ==
    /\ loop.phase = "idle"
    /\ UNCHANGED <<fetch, todo>>
    /\ state' = KeyState(state, key)
    /\ ignored' = ~Handled(state, key)
    /\ IF state = MENU /\ key = "K_1"
       THEN \* self.reset_game()
            /\ player' = NewPlayer
            /\ score' = 0
            /\ level' = 1
            /\ lives' = 1
            /\ reset_game_objects(env, 1)
            /\ now' = 0
            /\ idle_frames' = 0
            /\ pass' = PassAt(NewPlayer, 1)
            /\ UNCHANGED <<high_score, dark_mode, file, running, loop, writes>>
       ELSE /\ dark_mode' = IF state = SETTINGS /\ key = "K_1"
                            THEN ~dark_mode ELSE dark_mode
            /\ running' = (running /\ ~(state = MENU /\ key = "K_3"))
            /\ loop' = Between(running')
            /\ UNCHANGED <<player, obstacles, coins, power_ups, particles, score,
                           high_score, level, lives, file, now, idle_frames,
                           writes, pass>>

\* MaySpawn without the limit on the active power-ups
MaySpawnAlways(roll, n) == roll

\* Game.spawn_power_up: the test, roll being random.random() < 0.05 and n
\* the number of active power-ups
MaySpawn(roll, n) == roll /\ n < MaxPowerUps

\* Simulates, with the simulation stopped in the menu only
SimulatesOutsideMenu(st) == st # MENU

\* Game.update: the test that lets a frame run the simulation
Simulates(st) == st = PLAYING

\* Game.update up to the call of check_collisions, and check_collisions up
\* to the first handler it runs
Update(env) ==
    /\ loop.phase = "idle"
    /\ UNCHANGED <<fetch, todo>>
    /\ now < env.max_time
    /\ now' = now + Tick
    /\ ignored' = FALSE
    /\ UNCHANGED <<state, score, high_score, level, lives, dark_mode, file,
                   running, writes>>
    /\ IF ~Simulates(state)
       THEN /\ idle_frames < MaxIdleFrames
            /\ idle_frames' = idle_frames + 1
            /\ UNCHANGED <<player, obstacles, coins, power_ups, particles, loop,
                           pass>>
       ELSE /\ UNCHANGED idle_frames
            /\ \E keys \in env.keys : player' = PlayerUpdate(player, keys, now')
            /\ LET moved == [i \in 1..Len(obstacles) |-> ObstacleUpdate(obstacles[i])]
                   off == {i \in 1..Len(moved) : is_off_screen(moved[i])}
               IN \E d \in [off -> ObstacleDrawsAt(env, now')] :
                      obstacles' = [i \in 1..Len(moved) |->
                                       IF i \in off THEN ObstacleRespawn(moved[i], d[i])
                                       ELSE moved[i]]
            /\ LET moved == [i \in 1..Len(coins) |-> CoinUpdate(coins[i])]
                   off == {i \in 1..Len(moved) : is_off_screen(moved[i])}
               IN \E d \in [off -> env.coin] :
                      coins' = [i \in 1..Len(moved) |->
                                   IF i \in off THEN CoinRespawn(moved[i], d[i])
                                   ELSE moved[i]]
            /\ LET moved == [i \in 1..Len(power_ups) |-> PowerUpUpdate(power_ups[i])]
                   kept == SelectSeq(moved, LAMBDA u : ~is_off_screen(u))
               IN \* spawn_power_up
                  \E roll \in (IF now' \in env.spawn THEN BOOLEAN ELSE {FALSE}) :
                      IF MaySpawn(roll, Len(kept))
                      THEN \E d \in env.power_up : power_ups' = Append(kept, NewPowerUp(d))
                      ELSE power_ups' = kept
            /\ LET moved == [i \in 1..Len(particles) |-> ParticleUpdate(particles[i])]
               IN particles' = SelectSeq(moved, LAMBDA q : ~is_dead(q))
            /\ loop' = NextLoop("coins", 1, coins', FALSE, player', power_ups',
                                obstacles', running)
            /\ pass' = PassAt(player', lives)

\* LevelDue, late by one level
LevelDueLate(sc, lv) == sc \div 10 > lv

\* Game.handle_coin_collection: the test for a level-up
LevelDue(sc, lv) == sc \div 10 > lv - 1

\* level_up keeping the obstacles and the coins it has
level_up_keep(env) ==
    /\ level' = level + 1
    /\ UNCHANGED <<obstacles, coins>>
    /\ power_ups' = <<>>
    /\ particles' = <<>>

\* Game.level_up
level_up(env) ==
    /\ level' = level + 1
    /\ reset_game_objects(env, level + 1)

\* Game.handle_coin_collection for the coin the coin loop stands at, and the
\* loop up to the next handler
CollectCoin(env) ==
    /\ loop.phase = "coins"
    /\ UNCHANGED <<fetch, todo>>
    /\ \E d \in env.coin :
        LET lst == IF loop.detached THEN loop.iter ELSE coins
            c == lst[loop.i]
            \* the list iterated, after coin.respawn()
            after == [lst EXCEPT
                         ![loop.i] = CoinRespawn([c EXCEPT !.collected = TRUE], d)]
        IN /\ score' = score + c.value
           /\ IF LevelDue(score', level)
              THEN \* the 20 particles and the respawned coin are dropped by
                   \* reset_game_objects; the loop goes on over the old list
                   /\ level_up(env)
                   /\ loop' = NextLoop("coins", loop.i + 1, after, TRUE, player,
                                       power_ups', obstacles', running)
              ELSE /\ UNCHANGED <<level, obstacles, power_ups>>
                   /\ \E q \in env.particle :
                          particles' = particles \o
                              Burst(CoinParticles, c.x * Unit, c.y, c.color, q)
                   /\ coins' = IF loop.detached THEN coins ELSE after
                   /\ loop' = NextLoop("coins", loop.i + 1, after, loop.detached,
                                       player, power_ups, obstacles, running)
    /\ pass' = PassAt(player, lives)
    /\ UNCHANGED <<state, player, high_score, lives, dark_mode, file, running,
                   now, idle_frames, writes, ignored>>

\* CollectPowerUp with an effect that is on keeping its activation time
CollectPowerUpKeepsTime ==
    /\ loop.phase = "powerups"
    /\ UNCHANGED <<fetch, todo>>
    /\ LET u == loop.iter[loop.i]
       IN /\ player' =
                 IF u.type = "shield" /\ ~player.shield
                 THEN [player EXCEPT !.shield = TRUE, !.shield_time = now]
                 ELSE IF u.type = "speed_boost" /\ ~player.speed_boost
                 THEN [player EXCEPT !.speed_boost = TRUE, !.speed_boost_time = now]
                 ELSE player
          /\ lives' = IF u.type = "extra_life" THEN lives + 1 ELSE lives
          /\ power_ups' = RemoveFirst(power_ups, u)
          /\ loop' = NextLoop("powerups", loop.i + 1, loop.iter, FALSE, player',
                              power_ups', obstacles, running)
          /\ pass' = [PassAt(player', lives') EXCEPT
                          !.kinds = pass.kinds \cup {u.type}]
    /\ UNCHANGED <<state, obstacles, coins, particles, score, high_score, level,
                   dark_mode, file, running, now, idle_frames, writes, ignored>>

\* Game.handle_powerup_collection for the power-up the power-up loop stands at
CollectPowerUp ==
    /\ loop.phase = "powerups"
    /\ UNCHANGED <<fetch, todo>>
    /\ LET u == loop.iter[loop.i]
       IN /\ player' =
                 IF u.type = "shield"
                 THEN [player EXCEPT !.shield = TRUE, !.shield_time = now]
                 ELSE IF u.type = "speed_boost"
                 THEN [player EXCEPT !.speed_boost = TRUE, !.speed_boost_time = now]
                 ELSE player
          /\ lives' = IF u.type = "extra_life" THEN lives + 1 ELSE lives
          /\ power_ups' = RemoveFirst(power_ups, u)
          /\ loop' = NextLoop("powerups", loop.i + 1, loop.iter, FALSE, player',
                              power_ups', obstacles, running)
          /\ pass' = [PassAt(player', lives') EXCEPT
                          !.kinds = pass.kinds \cup {u.type}]
    /\ UNCHANGED <<state, obstacles, coins, particles, score, high_score, level,
                   dark_mode, file, running, now, idle_frames, writes, ignored>>

\* HitOutcome with a shielded hit that still costs a life
HitOutcomeShieldCostsLife(p, lv) ==
    IF p.shield
    THEN [shield |-> FALSE, lives |-> lv - 1, over |-> FALSE, burst |-> "CYAN"]
    ELSE [shield |-> p.shield, lives |-> lv - 1, over |-> lv - 1 <= 0,
          burst |-> IF lv - 1 <= 0 THEN "none" ELSE "RED"]

\* HitOutcome with a shield that is not used up
HitOutcomeShieldStays(p, lv) ==
    IF p.shield
    THEN [shield |-> TRUE, lives |-> lv, over |-> FALSE, burst |-> "CYAN"]
    ELSE [shield |-> p.shield, lives |-> lv - 1, over |-> lv - 1 <= 0,
          burst |-> IF lv - 1 <= 0 THEN "none" ELSE "RED"]

\* HitOutcome with the game ending one life late
HitOutcomeLateGameOver(p, lv) ==
    IF p.shield
    THEN [shield |-> FALSE, lives |-> lv, over |-> FALSE, burst |-> "CYAN"]
    ELSE [shield |-> p.shield, lives |-> lv - 1, over |-> lv - 1 < 0,
          burst |-> IF lv - 1 < 0 THEN "none" ELSE "RED"]

\* Game.handle_obstacle_collision: what a hit does to the shield and the
\* lives, whether it ends the game, and the colour of the particles it adds
HitOutcome(p, lv) ==
    IF p.shield
    THEN [shield |-> FALSE, lives |-> lv, over |-> FALSE, burst |-> "CYAN"]
    ELSE [shield |-> p.shield, lives |-> lv - 1, over |-> lv - 1 <= 0,
          burst |-> IF lv - 1 <= 0 THEN "none" ELSE "RED"]

\* Game.handle_obstacle_collision for the obstacle the obstacle loop stands at
HitObstacle(env) ==
    /\ loop.phase = "obstacles"
    /\ UNCHANGED <<fetch, todo>>
    /\ \E d \in ObstacleDrawsAt(env, now) :
           obstacles' = [obstacles EXCEPT
                            ![loop.i] = ObstacleRespawn(obstacles[loop.i], d)]
    /\ \E w \in env.write :
        LET out == HitOutcome(player, lives)
            \* save_high_score is called and raises
            raised == out.over /\ IsRecord(score, high_score) /\ w # "ok"
        IN /\ player' = [player EXCEPT !.shield = out.shield]
           /\ lives' = out.lives
           /\ IF out.over
              THEN game_over(w)
              ELSE UNCHANGED <<state, high_score, file, writes>>
           /\ IF out.burst = "none"
              THEN UNCHANGED particles
              ELSE \E q \in env.particle :
                       particles' = particles \o
                           Burst(HitParticles, PlayerCentreX(player),
                                 PlayerCentreY(player), out.burst, q)
           /\ running' = (running /\ ~raised)
           /\ loop' = IF raised THEN Crashed
                      ELSE NextLoop("obstacles", loop.i + 1, <<>>, FALSE, player',
                                    power_ups, obstacles', running)
    /\ pass' = [pass EXCEPT !.hits = pass.hits + 1,
                            !.slots = pass.slots \cup {loop.i}]
    /\ UNCHANGED <<coins, power_ups, score, level, dark_mode, now, idle_frames,
                   ignored>>

-----------------------------------------------------------------------------
(* Specifications *)

NoKeys == [left |-> FALSE, right |-> FALSE]

LeftKey == [left |-> TRUE, right |-> FALSE]

RightKey == [left |-> FALSE, right |-> TRUE]

\* no frame draws obstacles other than those of env.obstacle
NoNear == [draws |-> {}, at |-> {}]

KeyEvents == {"K_1", "K_2", "K_3", "K_RETURN", "K_ESCAPE", "K_SPACE"}

\* an obstacle over the start position of the player, and one to its right
ObstacleDraws == {[width |-> 100, x |-> 350], [width |-> 200, x |-> 600]}

ParticleDraws ==
    {[size |-> 2 * Unit, speed_x |-> -2 * Unit, speed_y |-> -5 * Unit, lifetime |-> 20],
     [size |-> 5 * Unit, speed_x |-> 2 * Unit, speed_y |-> -1 * Unit, lifetime |-> 40]}

(* Spec: sessions, coins, levels and the high score.  The player stands    *)
(* still, coins fall onto it, no power-up is ever drawn.                   *)
Env ==
    [keys |-> {NoKeys},
     event |-> KeyEvents,
     obstacle |-> ObstacleDraws,
     coin |-> {[x |-> 400, rare |-> FALSE], [x |-> 400, rare |-> TRUE]},
     near |-> NoNear,
     spawn |-> {},
     power_up |-> {},
     particle |-> ParticleDraws,
     file |-> {NoFile, FileWith(<<"x">>), FileWith(<<"1">>)},
     write |-> {"ok"},
     max_time |-> MaxTime]

Next ==
    \/ \E key \in Env.event : KeyDown(Env, key)
    \/ Update(Env)
    \/ CollectCoin(Env)
    \/ HitObstacle(Env)

Spec == Init(Env) /\ [][Next]_vars

(* SpecShield: power-ups and obstacle hits.  Power-ups are drawn in two    *)
(* frames, so that they reach the player one frame before and in the frame *)
(* in which the obstacles come down for the second time.                   *)
ShieldEnv ==
    [keys |-> {NoKeys},
     event |-> {"K_1", "K_RETURN"},
     obstacle |-> ObstacleDraws,
     coin |-> {[x |-> 400, rare |-> FALSE]},
     near |-> NoNear,
     spawn |-> SpawnFirst..SpawnLast,
     power_up |-> {[x |-> 390, type |-> t] : t \in PowerUpTypes},
     particle |-> ParticleDraws,
     file |-> {NoFile},
     write |-> {"ok"},
     max_time |-> MaxShieldTime]

NextShield ==
    \/ \E key \in ShieldEnv.event : KeyDown(ShieldEnv, key)
    \/ Update(ShieldEnv)
    \/ CollectCoin(ShieldEnv)
    \/ CollectPowerUp
    \/ HitObstacle(ShieldEnv)

SpecShield == Init(ShieldEnv) /\ [][NextShield]_vars

(* SpecLevels: long sessions without obstacle hits.  The obstacles come    *)
(* down beside the player, the coins onto it, ordinary and rare ones, so   *)
(* that the session climbs through the levels; power-ups are drawn in      *)
(* three consecutive frames, beside the player and onto it.                *)
LevelEnv ==
    [keys |-> {NoKeys},
     event |-> {"K_1"},
     obstacle |-> {[width |-> 200, x |-> 600]},
     coin |-> {[x |-> 400, rare |-> FALSE], [x |-> 400, rare |-> TRUE]},
     near |-> NoNear,
     spawn |-> LevelSpawnFirst..LevelSpawnLast,
     power_up |-> {[x |-> 100, type |-> "speed_boost"],
                   [x |-> 390, type |-> "extra_life"]},
     particle |-> {[size |-> 2 * Unit, speed_x |-> 0, speed_y |-> -1 * Unit,
                    lifetime |-> 20]},
     file |-> {NoFile},
     write |-> {"ok"},
     max_time |-> MaxLevelTime]

NextLevels ==
    \/ \E key \in LevelEnv.event : KeyDown(LevelEnv, key)
    \/ Update(LevelEnv)
    \/ CollectCoin(LevelEnv)
    \/ CollectPowerUp

SpecLevels == Init(LevelEnv) /\ [][NextLevels]_vars

(* SpecEffect: the timers of the effects.  A shield and a speed boost are   *)
(* drawn in the first frames and collected; nothing hits the player and    *)
(* the coins fall beside it, so that the effects last until they expire.   *)
EffectEnv ==
    [keys |-> {NoKeys},
     event |-> {"K_1"},
     obstacle |-> {[width |-> 200, x |-> 600]},
     coin |-> {[x |-> 700, rare |-> FALSE]},
     near |-> NoNear,
     spawn |-> EffectSpawnFirst..EffectSpawnLast,
     power_up |-> {[x |-> 390, type |-> "shield"],
                   [x |-> 390, type |-> "speed_boost"]},
     particle |-> {},
     file |-> {NoFile},
     write |-> {"ok"},
     max_time |-> MaxEffectTime]

NextEffect ==
    \/ \E key \in EffectEnv.event : KeyDown(EffectEnv, key)
    \/ Update(EffectEnv)
    \/ CollectPowerUp

SpecEffect == Init(EffectEnv) /\ [][NextEffect]_vars

(* SpecStore: sessions that end with a record while highscore.txt may be   *)
(* impossible to write.                                                    *)
StoreEnv ==
    [keys |-> {NoKeys},
     event |-> {"K_1", "K_RETURN"},
     obstacle |-> ObstacleDraws,
     coin |-> {[x |-> 400, rare |-> FALSE]},
     near |-> NoNear,
     spawn |-> {},
     power_up |-> {},
     particle |-> {[size |-> 2 * Unit, speed_x |-> 0, speed_y |-> -1 * Unit,
                    lifetime |-> 20]},
     file |-> {NoFile, FileWith(<<"1">>)},
     write |-> WriteOutcomes,
     max_time |-> MaxStoreTime]

NextStore ==
    \/ \E key \in StoreEnv.event : KeyDown(StoreEnv, key)
    \/ Update(StoreEnv)
    \/ CollectCoin(StoreEnv)
    \/ HitObstacle(StoreEnv)

SpecStore == Init(StoreEnv) /\ [][NextStore]_vars

(* SpecPersist: save_high_score and load_high_score by themselves.  The    *)
(* file starts absent or with any text of up to MaxTextLen characters out  *)
(* of digits, signs, a blank and a letter; a high score is saved and read  *)
(* back.                                                                   *)
PersistChars == {"0", "1", "9", "-", "+", " ", "x"}

PersistEnv ==
    [keys |-> {NoKeys},
     event |-> {},
     obstacle |-> {[width |-> 200, x |-> 600]},
     coin |-> {[x |-> 700, rare |-> FALSE]},
     near |-> NoNear,
     spawn |-> {},
     power_up |-> {},
     particle |-> {},
     file |-> {NoFile} \cup
              {FileWith(cs) : cs \in UNION {[1..n -> PersistChars] : n \in 0..MaxTextLen}},
     write |-> {"ok"},
     max_time |-> 0]

\* self.high_score = n; self.save_high_score()
Save(n) ==
    /\ loop.phase = "idle"
    /\ UNCHANGED <<fetch, todo>>
    /\ writes < MaxSaves
    /\ score' = n
    /\ high_score' = n
    /\ file' = save_high_score(n)
    /\ writes' = writes + 1
    /\ loop' = [phase |-> "saved", i |-> 0, iter |-> <<>>, detached |-> FALSE]
    /\ UNCHANGED <<state, player, obstacles, coins, power_ups, particles, level,
                   lives, dark_mode, running, now, idle_frames, pass, ignored>>

\* self.high_score = self.load_high_score()
Load ==
    /\ loop.phase = "saved"
    /\ UNCHANGED <<fetch, todo>>
    /\ high_score' = load_high_score(file)
    /\ loop' = Between(running)
    /\ UNCHANGED <<state, player, obstacles, coins, power_ups, particles, score,
                   level, lives, dark_mode, file, running, now, idle_frames,
                   writes, pass, ignored>>

NextPersist ==
    \/ \E n \in 0..MaxSaved : Save(n)
    \/ Load

SpecPersist == Init(PersistEnv) /\ [][NextPersist]_vars

(* SpecFast: one long session.  The obstacles come down beside the player  *)
(* and off the screen, 0.3 faster each time, until they fall more than the *)
(* height of the playing field in one frame; only then may they be drawn   *)
(* over the player, who may have collected an extra life in the first      *)
(* seconds.                                                                *)
FastEnv ==
    [keys |-> {NoKeys},
     event |-> {"K_1"},
     obstacle |-> {[width |-> 200, x |-> 600]},
     near |-> [draws |-> {[width |-> 100, x |-> 350]}, at |-> NearFirst..NearLast],
     coin |-> {[x |-> 700, rare |-> FALSE]},
     spawn |-> {FastSpawn},
     power_up |-> {[x |-> 390, type |-> "extra_life"]},
     particle |-> {[size |-> 2 * Unit, speed_x |-> 0, speed_y |-> -1 * Unit,
                    lifetime |-> 20]},
     file |-> {NoFile},
     write |-> {"ok"},
     max_time |-> MaxFastTime]

NextFast ==
    \/ \E key \in FastEnv.event : KeyDown(FastEnv, key)
    \/ Update(FastEnv)
    \/ CollectPowerUp
    \/ HitObstacle(FastEnv)

SpecFast == Init(FastEnv) /\ [][NextFast]_vars

(* SpecWidths: the widths and positions of the obstacles, over the first   *)
(* fall and respawn.  The draws are the narrowest and the widest obstacle, *)
(* each at the left and at the right end of its range; none is over the    *)
(* player.                                                                 *)
WidthEnv ==
    [keys |-> {NoKeys},
     event |-> {"K_1"},
     obstacle |-> {[width |-> 100, x |-> 0], [width |-> 100, x |-> 700],
                   [width |-> 200, x |-> 0], [width |-> 200, x |-> 600]},
     coin |-> {[x |-> 700, rare |-> FALSE]},
     near |-> NoNear,
     spawn |-> {},
     power_up |-> {},
     particle |-> {},
     file |-> {NoFile},
     write |-> {"ok"},
     max_time |-> MaxWidthTime]

NextWidths ==
    \/ \E key \in WidthEnv.event : KeyDown(WidthEnv, key)
    \/ Update(WidthEnv)

SpecWidths == Init(WidthEnv) /\ [][NextWidths]_vars

(* SpecMove: the player moves.  In every frame the left key, the right key *)
(* or no key is down; the session is over before anything falls as far as *)
(* the player.                                                             *)
MoveEnv ==
    [keys |-> {NoKeys, LeftKey, RightKey},
     event |-> {"K_1"},
     obstacle |-> {[width |-> 200, x |-> 600]},
     coin |-> {[x |-> 700, rare |-> FALSE]},
     near |-> NoNear,
     spawn |-> {},
     power_up |-> {},
     particle |-> {},
     file |-> {NoFile},
     write |-> {"ok"},
     max_time |-> MaxMoveTime]

NextMove ==
    \/ \E key \in MoveEnv.event : KeyDown(MoveEnv, key)
    \/ Update(MoveEnv)

SpecMove == Init(MoveEnv) /\ [][NextMove]_vars

(* SpecTunnel: one long session.  The obstacles come down beside the       *)
(* player and off the screen, 0.3 faster each time; in the frames in which *)
(* they respawn for the 228th and the 229th time they may be drawn over    *)
(* the player.                                                             *)
TunnelEnv ==
    [keys |-> {NoKeys},
     event |-> {"K_1"},
     obstacle |-> {[width |-> 200, x |-> 600]},
     near |-> [draws |-> {[width |-> 100, x |-> 350]},
               at |-> TunnelFirst..TunnelLast],
     coin |-> {[x |-> 700, rare |-> FALSE]},
     spawn |-> {},
     power_up |-> {},
     particle |-> {},
     file |-> {NoFile},
     write |-> {"ok"},
     max_time |-> MaxTunnelTime]

NextTunnel ==
    \/ \E key \in TunnelEnv.event : KeyDown(TunnelEnv, key)
    \/ Update(TunnelEnv)
    \/ HitObstacle(TunnelEnv)

SpecTunnel == Init(TunnelEnv) /\ [][NextTunnel]_vars

-----------------------------------------------------------------------------
(* FinancialDataFetcher._make_request: the call, step by step *)

\* what one attempt of session.get may give: a page, a server error, a
\* time-out, and an exception that is no RequestException
FetchOutcomes ==
    {Response(200, "a"), Response(200, "b"), Response(503, ""),
     Raises("Timeout"), Raises("ValueError")}

FetchUrls == {"u1", "u2"}

\* _make_request(url) is called
Call(url) ==
    /\ fetch.pc \in {"idle", "returned", "raised"}
    /\ fetch.calls < MaxCalls
    /\ fetch' = [NoCall EXCEPT !.pc = "get", !.url = url,
                               !.calls = fetch.calls + 1]
    /\ UNCHANGED <<game, todo>>

\* one pass through the try statement, session.get giving o
Get(o) ==
    /\ fetch.pc = "get"
    /\ LET exc == Raised(o)
           f == [fetch EXCEPT !.tried = Append(fetch.tried, o)]
       IN fetch' =
              IF exc = "none"
              THEN [f EXCEPT !.pc = "returned", !.result = BeautifulSoup(o.text)]
              ELSE IF exc \notin RequestExceptions
              THEN [f EXCEPT !.pc = "raised", !.result = Propagated(exc)]
              ELSE IF MaySleep(fetch.attempt)
              THEN [f EXCEPT !.pc = "sleep"]
              ELSE AfterFailure(f, fetch.attempt)
    /\ UNCHANGED <<game, todo>>

\* time.sleep(CONFIG['retry_delay']) returns
Sleep ==
    /\ fetch.pc = "sleep"
    /\ fetch' = AfterFailure([fetch EXCEPT !.sleeps = fetch.sleeps + 1,
                                           !.slept = fetch.slept + retry_delay],
                             fetch.attempt)
    /\ UNCHANGED <<game, todo>>

NextFetch ==
    \/ \E url \in FetchUrls : Call(url)
    \/ \E o \in FetchOutcomes : Get(o)
    \/ Sleep

(* SpecFetch: calls of _make_request.   session.get has a timeout and       *)
(* time.sleep a duration, so each of the two returns.                      *)
SpecFetch ==
    /\ Init(MoveEnv)
    /\ [][NextFetch]_vars
    /\ WF_vars(\E o \in FetchOutcomes : Get(o))
    /\ WF_vars(Sleep)

-----------------------------------------------------------------------------
(* ToDoList: the operations on the tasks *)

\* tasks.pkl when the object is constructed
ToDoFiles == {NoPickle, EmptyPickle, PickleOf(<<NewTask("a", 1)>>)}

\* the readings of datetime.now()
ToDoTimes == {1, 2}

\* the keyword arguments of edit_task, in the order of kwargs.items():
\* an attribute of Task, a key that is none, and both
ToDoKwargs ==
    {<<[key |-> "name", value |-> "b"]>>,
     <<[key |-> "colour", value |-> "red"]>>,
     <<[key |-> "colour", value |-> "red"], [key |-> "name", value |-> "b"]>>}

\* the indices the operations are called with: from below 0 to above the end
ToDoIndices == -1..MaxTasks

\* todo_list = ToDoList()
Construct(f) ==
    /\ todo.op = "none"
    /\ todo' = NewToDoList(f, NoPickle)
    /\ UNCHANGED <<game, fetch>>

AddTask(name, t) ==
    /\ todo.op # "none"
    /\ Len(todo.tasks) < MaxTasks
    /\ todo' = add_task(Started(todo, "add_task", 0), NewTask(name, t))
    /\ UNCHANGED <<game, fetch>>

RemoveTask(index) ==
    /\ todo.op # "none"
    /\ todo' = remove_task(Started(todo, "remove_task", index), index)
    /\ UNCHANGED <<game, fetch>>

CompleteTask(index, t) ==
    /\ todo.op # "none"
    /\ todo' = complete_task(Started(todo, "complete_task", index), index, t)
    /\ UNCHANGED <<game, fetch>>

EditTask(index, kwargs) ==
    /\ todo.op # "none"
    /\ todo' = edit_task(Started(todo, "edit_task", index), index, kwargs)
    /\ UNCHANGED <<game, fetch>>

NextToDo ==
    \/ \E f \in ToDoFiles : Construct(f)
    \/ \E t \in ToDoTimes : AddTask("a", t)
    \/ \E index \in ToDoIndices : RemoveTask(index)
    \/ \E index \in ToDoIndices, t \in ToDoTimes : CompleteTask(index, t)
    \/ \E index \in ToDoIndices, kwargs \in ToDoKwargs : EditTask(index, kwargs)

SpecToDo == Init(MoveEnv) /\ [][NextToDo]_vars

-----------------------------------------------------------------------------
(* Properties *)

\* the obstacle loop of the current frame is over
FrameOver == loop.phase \in {"idle", "exited"}

\* the step is a run of handle_obstacle_collision
HitStep == loop.phase = "obstacles"

\* the obstacle hit by a HitStep was respawned above the top edge
HitObstacleRespawned ==
    /\ Len(obstacles') = Len(obstacles)
    /\ obstacles'[loop.i].y + ObstacleHeight * Unit <= 0
    /\ obstacles'[loop.i].speed = obstacles[loop.i].speed + 3
    /\ \A j \in 1..Len(obstacles) : j # loop.i => obstacles'[j] = obstacles[j]

\* the step added n particles of the colour at the centre of the player
BurstAtPlayer(n, color) ==
    /\ Len(particles') = Len(particles) + n
    /\ SubSeq(particles', 1, Len(particles)) = particles
    /\ \A k \in (Len(particles) + 1)..Len(particles') :
           /\ particles'[k].x = (player.x + 25) * Unit
           /\ particles'[k].y = (player.y + 25) * Unit
           /\ particles'[k].color = color

(* C1: in every reachable state, and so after every coin collection, the   *)
(* level is 1 + floor(score / 10).                                         *)
LevelTracksScore == level = 1 + (score \div 10)

\* a rare coin took the score from 7 to 12 and the level to 2
WitnessLevelUp == state = PLAYING /\ level = 2 /\ score = 12

(* C2: the mode starts as Menu and changes only by Menu->Playing on K_1,   *)
(* Menu->Settings on K_2, Settings->Menu on ESC, GameOver->Menu on RETURN  *)
(* and Playing->GameOver by an obstacle hit that leaves lives <= 0.        *)
ModeMachine ==
    /\ state = MENU
    /\ [][state' # state =>
            \/ state = MENU /\ state' = PLAYING /\ KeyDown(Env, "K_1")
            \/ state = MENU /\ state' = SETTINGS /\ KeyDown(Env, "K_2")
            \/ state = SETTINGS /\ state' = MENU /\ KeyDown(Env, "K_ESCAPE")
            \/ state = GAME_OVER /\ state' = MENU /\ KeyDown(Env, "K_RETURN")
            \/ state = PLAYING /\ state' = GAME_OVER /\ HitStep /\ lives' <= 0]_vars

\* back in the menu after a session that ended, the theme changed in Settings
WitnessModesVisited == state = MENU /\ lives <= 0 /\ ~dark_mode

(* C3: a frame update that starts outside Playing changes neither score,   *)
(* level, lives, the player nor any entity collection, and the collision   *)
(* pass is entered only by an update that starts in Playing.               *)
IdleFrameChangesNothing ==
    [][/\ (state # PLAYING /\ Update(Env)) =>
              UNCHANGED <<score, level, lives, player, obstacles, coins,
                          power_ups, particles, state, high_score>>
       /\ (loop.phase = "idle" /\ loop'.phase \notin {"idle", "exited"}) =>
              state = PLAYING]_vars

\* a frame was updated after the game was over
WitnessIdleFrame == state = GAME_OVER /\ idle_frames > 0

(* C4: every step from Menu into Playing gives score 0, level 1, 1 life,   *)
(* a player at the start position without shield and speed boost, 3        *)
(* obstacles and 2 coins at their initial speeds and no power-ups and no   *)
(* particles; the high score and the file stay as they were.               *)
StartResetsSession ==
    [][(state = MENU /\ state' = PLAYING) =>
           /\ score' = 0 /\ level' = 1 /\ lives' = 1
           /\ player'.x = 375 /\ player'.y = 740
           /\ ~player'.shield /\ ~player'.speed_boost
           /\ Len(obstacles') = 3
           /\ \A i \in 1..Len(obstacles') :
                  obstacles'[i].speed = 50 /\ obstacles'[i].y = -200
           /\ Len(coins') = 2
           /\ \A i \in 1..Len(coins') :
                  /\ coins'[i].speed = 40 /\ coins'[i].y = -150
                  /\ coins'[i].value = 1 /\ ~coins'[i].collected
           /\ power_ups' = <<>>
           /\ particles' = <<>>
           /\ high_score' = high_score /\ file' = file]_vars

\* a session that has just started after one that left a high score
WitnessRestart == state = PLAYING /\ now = 0 /\ score = 0 /\ high_score > 0

(* C5: when the mode becomes GameOver the high score becomes the maximum   *)
(* of the high score and the score, in memory and in the file; in every    *)
(* GameOver state highScore >= score and the file holds the high score.    *)
GameOverRecordsHighScore ==
    /\ [](state = GAME_OVER =>
              high_score >= score /\ load_high_score(file) = high_score)
    /\ [][(state # GAME_OVER /\ state' = GAME_OVER) =>
              /\ score' = score
              /\ IF score > high_score
                 THEN high_score' = score /\ load_high_score(file') = score
                 ELSE high_score' = high_score /\ file' = file]_vars

\* a session ended with a new record, which was written
WitnessNewRecord ==
    /\ state = GAME_OVER /\ score > 0 /\ high_score = score
    /\ file = FileWith(<<"2">>) /\ writes = 1

(* C6: the file is written only by the step into GameOver with score >     *)
(* highScore, once, and what it holds as a number never decreases.         *)
StoreWrittenOnlyOnRecord ==
    [][/\ (file' # file \/ writes' # writes) =>
              /\ state = PLAYING /\ state' = GAME_OVER
              /\ score > high_score
              /\ writes' = writes + 1
       /\ load_high_score(file') >= load_high_score(file)]_vars

\* a later session ended below the record and left the file alone
WitnessNoRecord == state = GAME_OVER /\ writes = 1 /\ score < high_score

(* C10, as claimed: within a session the speed in every obstacle slot and  *)
(* in every coin slot never decreases.                                     *)
SlotSpeedsNeverDecrease ==
    [][state = PLAYING =>
           /\ \A i \in 1..Min(Len(obstacles), Len(obstacles')) :
                  obstacles'[i].speed >= obstacles[i].speed
           /\ \A i \in 1..Min(Len(coins), Len(coins')) :
                  coins'[i].speed >= coins[i].speed]_vars

(* C10, amended: within a level the speed in every obstacle slot and in    *)
(* every coin slot never decreases; a level-up replaces all obstacles and  *)
(* coins by new ones at the initial speeds 5 and 4.                        *)
SlotSpeedsNeverDecreaseWithinLevel ==
    [][state = PLAYING =>
           IF level' = level
           THEN /\ Len(obstacles') = Len(obstacles)
                /\ Len(coins') = Len(coins)
                /\ \A i \in 1..Len(obstacles) :
                       obstacles'[i].speed >= obstacles[i].speed
                /\ \A i \in 1..Len(coins) : coins'[i].speed >= coins[i].speed
           ELSE /\ \A i \in 1..Len(obstacles') : obstacles'[i].speed = 50
                /\ \A i \in 1..Len(coins') : coins'[i].speed = 40]_vars

\* an obstacle has respawned twice and a coin once
WitnessRespawned ==
    /\ state = PLAYING
    /\ \E i \in 1..Len(obstacles) : obstacles[i].speed = 56
    /\ \E i \in 1..Len(coins) : coins[i].speed = 42

(* C7: a hit resolved while the shield is active clears the shield, keeps  *)
(* the lives and the mode Playing, respawns the hit obstacle above the top *)
(* edge and adds 30 particles at the centre of the player; so a frame in   *)
(* which one obstacle hits a shielded player ends with the shield off and  *)
(* the lives it started the obstacle loop with.                            *)
ShieldAbsorbsHit ==
    /\ [][(HitStep /\ player.shield) =>
              /\ ~player'.shield
              /\ lives' = lives
              /\ state = PLAYING /\ state' = PLAYING
              /\ HitObstacleRespawned
              /\ BurstAtPlayer(30, "CYAN")]_vars
    /\ []((FrameOver /\ pass.shield /\ pass.hits = 1) =>
              ~player.shield /\ lives = pass.lives)

\* the shield was collected in the frame before, one obstacle hit in this one
WitnessShieldThenHit ==
    /\ FrameOver /\ state = PLAYING
    /\ pass.shield /\ pass.hits = 1
    /\ player.shield_time = now - Tick
    /\ ~player.shield /\ lives = pass.lives

(* C8, as claimed: a frame whose obstacle loop starts with the shield      *)
(* active and in which an obstacle overlaps the player ends with the       *)
(* shield off and the lives unchanged, however many obstacles overlap.     *)
ShieldFrameKeepsLives ==
    (FrameOver /\ pass.shield /\ pass.hits >= 1) =>
        ~player.shield /\ lives = pass.lives

(* C8, amended: such a frame ends with the shield off and exactly one hit  *)
(* absorbed: every further obstacle that overlaps the player in the frame  *)
(* costs one life, so the lives are unchanged only if one obstacle         *)
(* overlaps.                                                               *)
ShieldAbsorbsExactlyOne ==
    (FrameOver /\ pass.shield /\ pass.hits >= 1) =>
        ~player.shield /\ lives = pass.lives - (pass.hits - 1)

\* two obstacles hit a shielded player in one frame
WitnessShieldTwoHits == FrameOver /\ pass.shield /\ pass.hits = 2

(* C9, as claimed: a hit resolved while the shield is off takes one life,  *)
(* respawns the obstacle, adds 30 red particles at the centre of the       *)
(* player, and the mode is GameOver afterwards iff lives <= 0.             *)
UnshieldedHitAlwaysBursts ==
    [][(HitStep /\ ~player.shield) =>
           /\ lives' = lives - 1
           /\ HitObstacleRespawned
           /\ BurstAtPlayer(30, "RED")
           /\ (state' = GAME_OVER <=> lives' <= 0)]_vars

(* C9, amended: a hit resolved while the shield is off takes one life and  *)
(* respawns the obstacle; if lives <= 0 afterwards the mode is GameOver    *)
(* and no particle is added, otherwise the mode is unchanged and 30 red    *)
(* particles are added at the centre of the player.                        *)
UnshieldedHit ==
    [][(HitStep /\ ~player.shield) =>
           /\ lives' = lives - 1
           /\ HitObstacleRespawned
           /\ ~player'.shield
           /\ (state' = GAME_OVER <=> lives' <= 0)
           /\ IF lives' <= 0
              THEN particles' = particles
              ELSE state' = state /\ BurstAtPlayer(30, "RED")]_vars

\* a hit that was not fatal: the player had an extra life
WitnessHitSurvived ==
    /\ FrameOver /\ state = PLAYING
    /\ ~pass.shield /\ pass.hits = 1 /\ lives = pass.lives - 1
    /\ \E k \in 1..Len(particles) : particles[k].color = "RED"

-----------------------------------------------------------------------------
(* Properties of long sessions *)

\* the step is a run of handle_coin_collection
CoinStep == loop.phase = "coins"

\* the step is a frame update in PLAYING
FrameStep == state = PLAYING /\ now' # now

\* the step is a run of handle_coin_collection that levels up
LevelUpStep == CoinStep /\ level' # level

\* s is the sequence t followed by zero or more elements
Extends(s, t) == Len(s) >= Len(t) /\ SubSeq(s, 1, Len(t)) = t

LevelUpReusesEntities ==
    [][LevelUpStep =>
           /\ Extends(obstacles', obstacles)
           /\ Len(coins') >= Len(coins)
           /\ \A i \in 1..Len(coins) :
                  (loop.detached \/ i # loop.i) => coins'[i] = coins[i]]_vars

(* C17, amended: a level-up replaces the obstacles and the coins by new    *)
(* ones, as many as the new level asks for, each above the top edge with   *)
(* its initial speed (5 and 4), the coins with value 1 and not collected;  *)
(* no entity keeps its position or its accumulated speed.                  *)
LevelUpReplacesEntities ==
    [][LevelUpStep =>
           /\ level' = level + 1
           /\ Len(obstacles') = (IF 3 + level' \div 2 < 5 THEN 3 + level' \div 2 ELSE 5)
           /\ \A i \in 1..Len(obstacles') :
                  obstacles'[i].y = -200 /\ obstacles'[i].speed = 50
           /\ Len(coins') = (IF 2 + level' \div 3 < 5 THEN 2 + level' \div 3 ELSE 5)
           /\ \A i \in 1..Len(coins') :
                  /\ coins'[i].y = -150 /\ coins'[i].speed = 40
                  /\ coins'[i].value = 1 /\ ~coins'[i].collected
                  /\ coins'[i].animation_frame = 0]_vars

\* just after the level-up to level 3: three new coins, four new obstacles
WitnessLevelUpReplaced ==
    /\ state = PLAYING /\ level = 3 /\ Len(coins) = 3
    /\ \A i \in 1..Len(obstacles) : obstacles[i].y = -200 /\ obstacles[i].speed = 50
    /\ \A i \in 1..Len(coins) : coins[i].y = -150 /\ coins[i].speed = 40

\* what a frame update, a power-up collection and the other steps of a
\* session do to the power-ups and the particles, level-ups left aside
OrdinaryRemovals ==
    IF FrameStep
    THEN LET moved == [i \in 1..Len(power_ups) |-> PowerUpUpdate(power_ups[i])]
             kept == SelectSeq(moved, LAMBDA u : ~is_off_screen(u))
             aged == [i \in 1..Len(particles) |-> ParticleUpdate(particles[i])]
         IN /\ Extends(power_ups', kept)
            /\ particles' = SelectSeq(aged, LAMBDA q : q.lifetime > 0)
    ELSE IF loop.phase = "powerups"
    THEN /\ Len(power_ups') = Len(power_ups) - 1
         /\ \E k \in 1..Len(power_ups) :
                /\ power_ups[k] = loop.iter[loop.i]
                /\ power_ups' = SubSeq(power_ups, 1, k - 1)
                                   \o SubSeq(power_ups, k + 1, Len(power_ups))
         /\ particles' = particles
    ELSE /\ power_ups' = power_ups
         /\ Extends(particles', particles)

(* C18, as claimed: in a session a power-up leaves the list only off the   *)
(* screen or collected, a particle only with its lifetime used up; no      *)
(* other step, a level-up included, removes any.                           *)
OnlyOrdinaryRemovals ==
    [][(state = PLAYING /\ state' = PLAYING) => OrdinaryRemovals]_vars

(* C18, amended: the same, except that a level-up empties both lists,      *)
(* whatever they hold.                                                     *)
RemovalsOrLevelUp ==
    [][(state = PLAYING /\ state' = PLAYING) =>
           IF LevelUpStep
           THEN power_ups' = <<>> /\ particles' = <<>>
           ELSE OrdinaryRemovals]_vars

\* both lists empty just after a level-up, in a frame in which the
\* power-ups drawn would still be falling
WitnessLevelUpCleared ==
    /\ state = PLAYING /\ level = 2 /\ now > LevelSpawnLast
    /\ \A i \in 1..Len(obstacles) : obstacles[i].y = -200
    /\ power_ups = <<>> /\ particles = <<>>

(* C19: a coin collection adds to the score the value the coin has when it *)
(* is collected, 1 or 5, and respawns the coin above the top edge, not     *)
(* collected, 0.2 faster, with value 1 or 5; the score never decreases in  *)
(* a session and no coin of the list is ever left collected.               *)
CoinCollection ==
    /\ [][CoinStep =>
              LET lst == IF loop.detached THEN loop.iter ELSE coins
                  c == lst[loop.i]
                  Respawned(r) ==
                      /\ r.y = -150 /\ r.y + 150 <= 0 /\ ~r.collected
                      /\ r.speed = c.speed + 2 /\ r.value \in {1, 5}
              IN /\ c.value \in {1, 5}
                 /\ score' = score + c.value
                 /\ (~loop.detached /\ level' = level) =>
                        /\ Len(coins') = Len(coins)
                        /\ Respawned(coins'[loop.i])
                        /\ \A j \in 1..Len(coins) :
                               j # loop.i => coins'[j] = coins[j]
                 /\ (loop'.phase = "coins" /\ loop'.detached) =>
                        Respawned(loop'.iter[loop.i])]_vars
    /\ [][(state = PLAYING /\ state' = PLAYING) => score' >= score]_vars
    /\ [](\A i \in 1..Len(coins) : ~coins[i].collected)

\* the first coin, of value 1, was collected and came back as a rare one
WitnessCoinRespawnedRare ==
    /\ state = PLAYING /\ score = 1
    /\ coins[1].value = 5 /\ coins[1].y = -150 /\ coins[1].speed = 42

(* C20: there are never more than 2 power-ups; a frame creates at most     *)
(* one, and only if fewer than 2 were left on the screen when it decided.  *)
PowerUpLimit ==
    /\ [](Len(power_ups) <= 2)
    /\ [][FrameStep =>
              LET moved == [i \in 1..Len(power_ups) |-> PowerUpUpdate(power_ups[i])]
                  left == Cardinality({i \in 1..Len(moved) : moved[i].y <= 8000})
              IN /\ Len(power_ups') <= left + 1
                 /\ Len(power_ups') > left => left < 2]_vars
    /\ [][~FrameStep => Len(power_ups') <= Len(power_ups)]_vars

\* the last frame that may draw one had two power-ups, drawn in the two
\* frames before it
WitnessThirdDrawBlocked ==
    /\ state = PLAYING /\ now = LevelSpawnLast /\ Len(power_ups) = 2
    /\ power_ups[1].y = -240 /\ power_ups[2].y = -270

-----------------------------------------------------------------------------
(* Properties of the effect timers *)

(* C12, as claimed: a frame polled before activatedAt + 5000 leaves the    *)
(* flag of an effect set, the frame polled at activatedAt + 5000 and every *)
(* later one clears it.                                                    *)
EffectExpiresAtFiveSeconds ==
    [][FrameStep =>
           /\ player.shield =>
                  (player'.shield <=> now' < player.shield_time + 5000)
           /\ player.speed_boost =>
                  (player'.speed_boost <=> now' < player.speed_boost_time + 5000)]_vars

(* C12, amended: a frame polled up to and at activatedAt + 5000 leaves the *)
(* flag set; the first frame polled after activatedAt + 5000 clears it.    *)
EffectExpiresAfterFiveSeconds ==
    [][FrameStep =>
           /\ player.shield =>
                  (player'.shield <=> now' <= player.shield_time + 5000)
           /\ player.speed_boost =>
                  (player'.speed_boost <=> now' <= player.speed_boost_time + 5000)
           /\ ~player.shield => ~player'.shield
           /\ ~player.speed_boost => ~player'.speed_boost]_vars

\* the frame polled at activatedAt + 5000 has left the shield on
WitnessShieldAtFiveSeconds ==
    /\ state = PLAYING /\ FrameOver
    /\ player.shield /\ now = player.shield_time + 5000

-----------------------------------------------------------------------------
(* Properties of the high-score store *)

(* C13, as claimed: whatever the write does, the step into GameOver leaves *)
(* the loop of Game.run running and no exception leaves the frame update,  *)
(* so that RETURN can still be handled in GameOver.                        *)
WriteFailureIsNotFatal ==
    /\ loop.phase # "crashed"
    /\ state = GAME_OVER => running

\* a session ended with a record, save_high_score raised and the exception
\* ended Game.run in the mode GameOver
WitnessWriteFailureEndsRun ==
    /\ state = GAME_OVER /\ ~running /\ loop.phase = "crashed"
    /\ high_score = score /\ load_high_score(file) # high_score


\* the text has no digit, or has a letter
NotANumber(cs) ==
    \/ \A i \in 1..Len(cs) : cs[i] \notin {"0", "1", "2", "3", "4", "5", "6", "7", "8", "9"}
    \/ \E i \in 1..Len(cs) : cs[i] = "x"

(* C14: the high score read back after N was saved is N, for every N >= 0; *)
(* the high score read from no file or from a text that is not a number is *)
(* 0.                                                                      *)
PersistenceRoundTrips ==
    /\ (writes > 0 /\ loop.phase = "idle") => high_score = score
    /\ (writes = 0 /\ (~file.exists \/ NotANumber(file.content))) => high_score = 0

\* 109 was saved over a file without a number and read back
WitnessSavedAndLoaded ==
    /\ writes = 2 /\ loop.phase = "idle" /\ score = 109 /\ high_score = 109
    /\ file = FileWith(<<"1", "0", "9">>)

-----------------------------------------------------------------------------
(* Properties of the event handler *)

\* the action signals and the modes each is valid in: start, settings and
\* quit in Menu, continue in GameOver, theme and back in Settings
ValidSignals ==
    {<<MENU, "K_1">>, <<MENU, "K_2">>, <<MENU, "K_3">>, <<GAME_OVER, "K_RETURN">>,
     <<SETTINGS, "K_1">>, <<SETTINGS, "K_ESCAPE">>}

(* C15: a key event that is not valid for the current mode changes neither *)
(* the mode, the score, the level, the lives, the player, any entity list, *)
(* the theme, the high score and its file, nor does it end the loop.       *)
InvalidSignalIgnored ==
    [][\A key \in KeyEvents :
           (KeyDown(Env, key) /\ <<state, key>> \notin ValidSignals) =>
               /\ UNCHANGED <<state, score, level, lives, player, obstacles,
                              coins, power_ups, particles, dark_mode, high_score,
                              file, running, now, loop>>
               /\ loop'.phase = "idle"]_vars

\* a key was pressed during play, after coins were collected, and ignored
WitnessKeyIgnoredInPlay == state = PLAYING /\ ignored /\ score > 0 /\ running

-----------------------------------------------------------------------------
(* Properties of the obstacle respawn *)

(* C16, as claimed: the respawn that resolves a hit leaves the obstacle    *)
(* off the player, so that the handler does not run for it again in the    *)
(* same frame, and the obstacle of a slot hit in one frame does not hit    *)
(* in the next frame, whatever its speed.                                  *)
HitObstacleCannotRetrigger ==
    /\ [][HitStep => loop.i \notin ObstacleHits(player', obstacles')]_vars
    /\ [][FrameStep =>
              \A i \in pass.slots : i \notin ObstacleHits(player', obstacles')]_vars

\* an obstacle faster than 740 per frame hit the player, who had two lives,
\* was respawned, and hit again in the next frame, which ended the session
WitnessHitInConsecutiveFrames ==
    /\ state = GAME_OVER /\ lives = 0 /\ pass.hits = 1
    /\ \E i \in pass.slots : obstacles[i].speed = 7409
    /\ \E k \in 1..Len(particles) :
           particles[k].color = "RED" /\ particles[k].lifetime = 19

-----------------------------------------------------------------------------
(* Properties of the power-ups *)

\* the step is a run of handle_powerup_collection
PowerUpStep == loop.phase = "powerups"

(* C21: collecting a shield sets the shield flag and its time stamp to     *)
(* now, collecting a speed boost the other flag and its time stamp,        *)
(* collecting an extra life adds 1 to the lives; the power-up leaves the   *)
(* list, and the score, the level, the mode, the other lists and the other *)
(* effect stay as they are.  An effect that is already on gets the new     *)
(* time stamp, so its 5000 ms start again.                                 *)
PowerUpEffect ==
    [][PowerUpStep =>
           LET u == loop.iter[loop.i]
           IN /\ u.type \in {"shield", "speed_boost", "extra_life"}
              /\ u.type = "shield" =>
                     /\ player'.shield /\ player'.shield_time = now
                     /\ player'.speed_boost = player.speed_boost
                     /\ player'.speed_boost_time = player.speed_boost_time
                     /\ lives' = lives
              /\ u.type = "speed_boost" =>
                     /\ player'.speed_boost /\ player'.speed_boost_time = now
                     /\ player'.shield = player.shield
                     /\ player'.shield_time = player.shield_time
                     /\ lives' = lives
              /\ u.type = "extra_life" =>
                     /\ lives' = lives + 1
                     /\ player' = player
              /\ player'.x = player.x /\ player'.y = player.y
              /\ Len(power_ups') = Len(power_ups) - 1
              /\ \E k \in 1..Len(power_ups) :
                     /\ power_ups[k] = u
                     /\ power_ups' = SubSeq(power_ups, 1, k - 1)
                                        \o SubSeq(power_ups, k + 1, Len(power_ups))
              /\ UNCHANGED <<score, level, state, high_score, obstacles, coins,
                             particles>>]_vars

\* a shield collected in the frame before is on, and the handler is about
\* to run for a second shield
WitnessSecondShield ==
    /\ PowerUpStep /\ loop.iter[loop.i].type = "shield"
    /\ player.shield /\ player.shield_time = now - Tick

-----------------------------------------------------------------------------
(* Properties of the particles *)

\* the particles of the list that the next frame keeps
Surviving == {i \in 1..Len(particles) : particles[i].lifetime > 1}

\* the step empties the particle list: a level-up, or the start of a session
ParticlesCleared == LevelUpStep \/ (loop.phase = "idle" /\ state' = PLAYING)

(* C22, as the code has it: a lifetime is drawn once in 20..40, both ends  *)
(* included, a Playing frame takes one off every lifetime and removes the  *)
(* particles that reach zero, so a particle lives for at least 20 and at   *)
(* most 40 Playing frames unless a level-up or a new session empties the   *)
(* list before; no particle with lifetime <= 0 is ever left in the list.   *)
ParticleLifetime ==
    /\ [](\A i \in 1..Len(particles) : particles[i].lifetime \in 1..40)
    /\ [][FrameStep =>
             /\ Len(particles') = Cardinality(Surviving)
             /\ \A i \in Surviving :
                    \E j \in 1..Len(particles') :
                        /\ particles'[j].lifetime = particles[i].lifetime - 1
                        /\ particles'[j].color = particles[i].color]_vars
    /\ [][~FrameStep /\ particles' # particles =>
             \/ ParticlesCleared /\ particles' = <<>>
             \/ /\ Extends(particles', particles)
                /\ \A j \in (Len(particles) + 1)..Len(particles') :
                       particles'[j].lifetime \in 20..40]_vars

\* a particle drawn with lifetime 40 and size 5 has been through 39 frames
WitnessParticleLastFrame ==
    /\ state = PLAYING
    /\ \E i \in 1..Len(particles) :
           particles[i].lifetime = 1 /\ particles[i].size = 11

(* C22, as stated: a lifetime is drawn in [20, 40), so no particle has     *)
(* more than 39 frames left.                                               *)
ParticleLifetimeBelowForty ==
    \A i \in 1..Len(particles) : particles[i].lifetime \in 1..39

-----------------------------------------------------------------------------
(* Properties of the obstacles' widths *)

\* the obstacle is inside the screen from side to side
InsideScreen(o) == 0 <= o.x /\ o.x + o.width <= SCREEN_WIDTH

(* C23, as the code has it: the width of every obstacle, when created and  *)
(* after every respawn, is an integer from 100 to 200, both ends included, *)
(* and its position keeps it inside the screen: 0 <= x, x + w <= 800.      *)
ObstacleWidth ==
    \A i \in 1..Len(obstacles) :
        obstacles[i].width \in 100..200 /\ InsideScreen(obstacles[i])

\* an obstacle has respawned with the width 200, and ends at the right edge
WitnessWidestRespawned ==
    \E i \in 1..Len(obstacles) :
        /\ obstacles[i].speed > ObstacleSpeed * Unit
        /\ obstacles[i].width = 200
        /\ obstacles[i].x + obstacles[i].width = SCREEN_WIDTH

(* C23, as stated: the width w is an integer with 100 <= w < 200, and the  *)
(* obstacle is inside the screen.                                          *)
ObstacleWidthBelow200 ==
    \A i \in 1..Len(obstacles) :
        /\ 100 <= obstacles[i].width /\ obstacles[i].width < 200
        /\ InsideScreen(obstacles[i])

-----------------------------------------------------------------------------
(* Properties of the lives *)

(* C24: the lives are never negative, and in GameOver they are 0, also     *)
(* when several obstacles are over the player in the frame of the fatal    *)
(* hit.                                                                    *)
LivesNeverNegative == lives >= 0 /\ (state = GAME_OVER => lives = 0)

\* three obstacles were over the player in the frame of the fatal hit, and
\* the handler has run for each of them
WitnessLivesBelowZero ==
    state = GAME_OVER /\ pass.lives = 1 /\ pass.hits = 3 /\ lives = -2

-----------------------------------------------------------------------------
(* Properties of the player's position *)

(* C25: the player stays inside the screen whatever keys are down, that    *)
(* is 0 <= x <= 750, and its vertical position never changes.              *)
PlayerInsideScreen ==
    /\ 0 <= player.x /\ player.x <= SCREEN_WIDTH - PlayerWidth
    /\ player.y = NewPlayer.y

\* the left key was down in 38 frames, the player is 5 px beyond the left edge
WitnessPlayerBeyondEdge == state = PLAYING /\ player.x = -5

-----------------------------------------------------------------------------
(* Properties of the order of the collision loops *)

(* C26: in a Playing frame the coins are handled first, then the           *)
(* power-ups, then the obstacles: after a frame update no power-up is      *)
(* handled while a coin is over the player and no obstacle while a coin    *)
(* or a power-up is, and no loop is gone back to.  So a shield collected   *)
(* in the frame of an obstacle overlap absorbs the hit, and an extra life  *)
(* collected with lives = 1 in the frame of a hit without shield leaves    *)
(* lives = 1 and the mode Playing.                                         *)
CollisionOrder ==
    /\ [][FrameStep =>
             /\ CoinHits(player', coins') # {} => loop'.phase = "coins"
             /\ PowerUpHits(player', power_ups') # {} =>
                    loop'.phase \in {"coins", "powerups"}]_vars
    /\ [][PowerUpStep => loop'.phase # "coins"]_vars
    /\ [][HitStep => loop'.phase \notin {"coins", "powerups"}]_vars
    /\ [][(HitStep /\ pass.hits = 0 /\ "shield" \in pass.kinds) =>
             /\ player.shield /\ ~player'.shield
             /\ lives' = lives
             /\ state' = PLAYING]_vars
    /\ [][(HitStep /\ pass.hits = 0 /\ "extra_life" \in pass.kinds
              /\ ~player.shield /\ pass.lives = 2) =>
             /\ lives = 2 /\ lives' = 1
             /\ state' = PLAYING]_vars
    /\ []((FrameOver /\ pass.hits = 1 /\ "extra_life" \in pass.kinds
              /\ ~pass.shield /\ pass.lives = 2) => lives = 1)

\* an extra life was collected with lives = 1 in the frame in which one
\* obstacle hit the player without shield
WitnessExtraLifeThenHit ==
    /\ FrameOver /\ state = PLAYING
    /\ pass.hits = 1 /\ pass.kinds = {"extra_life"}
    /\ ~pass.shield /\ pass.lives = 2 /\ lives = 1

-----------------------------------------------------------------------------
(* Properties of the coins iterated after a level-up *)

\* the coins of Game.coins
ActiveCoins == {coins[i] : i \in 1..Len(coins)}

(* C27: the score grows only by the collection of a coin of Game.coins:    *)
(* once a level-up in the coin loop has replaced the lists, the coins of   *)
(* the replaced list are not collected and add nothing to the score.       *)
ScoreOnlyFromActiveCoins ==
    [][score' > score =>
           /\ CoinStep
           /\ ~loop.detached
           /\ coins[loop.i] \in ActiveCoins]_vars

\* the level-up has replaced the lists, and the coin loop stands at a coin
\* of the replaced list that is over the player
WitnessReplacedCoinCollected ==
    /\ CoinStep /\ loop.detached
    /\ level = 2 /\ score >= 10
    /\ loop.iter[loop.i] \notin ActiveCoins
    /\ CoinOverlap(player, loop.iter[loop.i])

-----------------------------------------------------------------------------
(* Properties of fast obstacles *)

\* the obstacle and the player overlap from side to side
OverPlayer(p, o) == p.x < o.x + o.width /\ p.x + PlayerWidth > o.x

\* the obstacle is above the box of the player, and below it
AbovePlayer(p, o) == o.y + ObstacleHeight * Unit <= p.y * Unit

BelowPlayer(p, o) == o.y >= (p.y + PlayerHeight) * Unit

(* C28: no obstacle tunnels through the player: an obstacle over the       *)
(* player from side to side does not get from above the box of the player  *)
(* to below it in one frame, that is without a frame in which it overlaps  *)
(* the player and the hit is fired, whatever speed it has.                 *)
NoTunnelling ==
    [][FrameStep =>
           \A i \in 1..Len(obstacles) :
               (OverPlayer(player, obstacles[i]) /\ AbovePlayer(player, obstacles[i]))
                   => ~BelowPlayer(player, ObstacleUpdate(obstacles[i]))]_vars

\* an obstacle with the speed 73.7 is below the player it fell through: the
\* session goes on with the one life it started with
WitnessFellThrough ==
    /\ state = PLAYING /\ lives = 1 /\ loop.phase = "idle"
    /\ \E i \in 1..Len(obstacles) :
           /\ obstacles[i].speed = 737
           /\ OverPlayer(player, obstacles[i])
           /\ BelowPlayer(player, obstacles[i])

-----------------------------------------------------------------------------
(* Properties of _make_request *)

\* the attempts of the current call that failed with a request error
FailedAttempts ==
    {i \in 1..Len(fetch.tried) : Raised(fetch.tried[i]) \in RequestExceptions}

\* the call is over
CallOver == fetch.pc \in {"returned", "raised"}

(* C29: a call makes at most max_retries = 3 attempts; it returns the      *)
(* parsed page of the first attempt that succeeds and makes no attempt     *)
(* after it; it sleeps retry_delay after each failed attempt but the last; *)
(* when all three attempts fail with a request error it returns None and   *)
(* raises nothing; and every call comes to an end.                         *)
RequestRetries ==
    /\ [](Len(fetch.tried) <= max_retries)
    /\ []((fetch.pc = "returned" /\ fetch.result.kind = "page") =>
             LET n == Len(fetch.tried)
             IN /\ Raised(fetch.tried[n]) = "none"
                /\ fetch.result = BeautifulSoup(fetch.tried[n].text)
                /\ FailedAttempts = 1..(n - 1)
                /\ fetch.sleeps = n - 1)
    /\ [][CallOver => fetch'.tried = <<>> /\ fetch'.calls = fetch.calls + 1]_vars
    /\ [](fetch.slept = fetch.sleeps * retry_delay)
    /\ [](fetch.pc = "sleep" =>
             /\ Len(fetch.tried) < max_retries
             /\ fetch.sleeps = Len(fetch.tried) - 1)
    /\ [](fetch.pc = "get" => fetch.sleeps = Len(fetch.tried))
    /\ []((Len(fetch.tried) = max_retries
              /\ FailedAttempts = 1..max_retries) =>
             /\ fetch.pc = "returned" /\ fetch.result = None
             /\ fetch.sleeps = max_retries - 1)
    /\ []((fetch.pc = "returned" /\ fetch.result = None) =>
             FailedAttempts = 1..max_retries)
    /\ [](fetch.pc = "raised" =>
             Raised(fetch.tried[Len(fetch.tried)]) \notin RequestExceptions)
    /\ (fetch.pc = "get") ~> CallOver

\* three attempts failed, the call slept twice and returned None
WitnessGaveUp ==
    /\ fetch.pc = "returned" /\ fetch.result = None
    /\ Len(fetch.tried) = 3 /\ fetch.slept = 2 * retry_delay

-----------------------------------------------------------------------------
(* Properties of the ToDoList *)

\* the step is a call of remove_task, complete_task or edit_task
IndexedStep ==
    /\ todo' # todo
    /\ todo'.op \in {"remove_task", "complete_task", "edit_task"}

\* the two data files hold the lists of the object after the step, and the
\* step has written both
Persisted ==
    /\ todo'.written = {"tasks.pkl", "categories.pkl"}
    /\ todo'.tasks_pkl = PickleOf(todo'.tasks)
    /\ todo'.categories_pkl = PickleOf(todo'.categories)

\* the step leaves every task but the one at position k (from 1) as it is
OnlyChanged(k) ==
    /\ Len(todo'.tasks) = Len(todo.tasks)
    /\ \A j \in 1..Len(todo.tasks) : j # k => todo'.tasks[j] = todo.tasks[j]

(* C30: remove_task, complete_task and edit_task called with an index      *)
(* outside 0 <= index < len(tasks) return None or False, leave the tasks    *)
(* as they are and write no data file; with a valid index they change only  *)
(* the task addressed, remove_task taking exactly that task out of the list *)
(* and keeping the order of the others, and write the result to the files.  *)
IndexedOperations ==
    [][IndexedStep =>
           LET i == todo'.index
               old == todo.tasks
               new == todo'.tasks
               op == todo'.op
           IN IF ~(0 <= i /\ i < Len(old))
              THEN /\ todo'.result.kind = (IF op = "remove_task" THEN "None"
                                           ELSE "False")
                   /\ new = old
                   /\ todo'.categories = todo.categories
                   /\ todo'.written = {}
                   /\ todo'.tasks_pkl = todo.tasks_pkl
                   /\ todo'.categories_pkl = todo.categories_pkl
              ELSE /\ Persisted
                   /\ todo'.categories = todo.categories
                   /\ op = "remove_task" =>
                          /\ todo'.result = ReturnedTask(old[i + 1])
                          /\ Len(new) = Len(old) - 1
                          /\ \A j \in 1..i : new[j] = old[j]
                          /\ \A j \in (i + 1)..Len(new) : new[j] = old[j + 1]
                   /\ op = "complete_task" =>
                          /\ todo'.result.kind = "True"
                          /\ OnlyChanged(i + 1)
                          /\ new[i + 1].completed
                          /\ new[i + 1].name = old[i + 1].name
                          /\ new[i + 1].created_at = old[i + 1].created_at
                   /\ op = "edit_task" =>
                          /\ todo'.result.kind = "True"
                          /\ OnlyChanged(i + 1)
                          /\ new[i + 1].completed = old[i + 1].completed
                          /\ new[i + 1].created_at = old[i + 1].created_at]_vars

\* the second of three different tasks was removed: the two others are left
\* in their order, in the list and in tasks.pkl
WitnessMiddleRemoved ==
    /\ todo.op = "remove_task" /\ todo.index = 1
    /\ todo.result.kind = "task" /\ todo.result.task.name = "b"
    /\ Len(todo.tasks) = 2
    /\ todo.tasks[1].completed /\ ~todo.tasks[2].completed
    /\ todo.tasks_pkl = PickleOf(todo.tasks)

====
